---- MODULE Spec2Model ----
(***************************************************************************)
(* Model of the QuantoPick email scheduler (src/main.py): the schedule     *)
(* configuration with its persisted file and its APScheduler registration, *)
(* the /update-schedule handler and the GET handlers that read the         *)
(* schedule, the campaign runner send_emails_with_subject as run by the    *)
(* scheduled job and by /trigger-test, and the health monitoring.          *)
(***************************************************************************)
EXTENDS Integers, Sequences, FiniteSets, TLC

VARIABLES
    schedule_config,   \* main.py:124 the in-memory schedule (hour, minute)
    config_file,       \* schedule_config.json: NoFile or the pair last saved
    daily_jobs,        \* triggers registered under the id 'daily_emails'
    upd,               \* per HTTP worker: the /update-schedule request it serves
    updates,           \* /update-schedule requests received since the model began
    restarts,          \* process restarts so far
    creds,             \* SENDGRID_API_KEY and SENDER_EMAIL are both set
    alert_email,       \* ALERT_EMAIL is set
    last_execution,    \* main.py:106 the RunRecord
    run,               \* per caller: the send_emails_with_subject execution
    runs,              \* campaign executions started so far
    now,               \* datetime.now(UAE_TZ), in hours
    monitoring_status, \* main.py:115 the result of the last health check
    mon,               \* what the last run_health_monitoring call met and returned
    last_success,      \* start time of the latest scheduled run that succeeded (0: none)
    seen,              \* the GET worker: the schedule string it is formatting
    whole              \* the pairs the initial load or an accepted update set

vars == <<schedule_config, config_file, daily_jobs, upd, updates, restarts,
          creds, alert_email, last_execution, run, runs,
          now, monitoring_status, mon, last_success, seen, whole>>

healthVars == <<now, monitoring_status, mon, last_success>>
readVars == <<seen, whole>>
auxVars == <<healthVars, readVars>>

schedVars == <<schedule_config, config_file, daily_jobs, upd, updates, restarts>>
runVars == <<creds, alert_email, last_execution, run, runs>>

----------------------------------------------------------------------------
(* Bounds of the model *)

MaxUpdates == 2
MaxRestarts == 1
MaxContacts == 2
MaxRuns == 2
MaxNow == 27
MaxChecks == 1

----------------------------------------------------------------------------
(* Request values of /update-schedule.  A JSON number is kept in halves    *)
(* (twice = 2 * value) so that 5.5 and -0.5 are values a request can hold. *)

Num(k) == [kind |-> "num", twice |-> k]
Null == [kind |-> "null", twice |-> 0]
BadStr == [kind |-> "str", twice |-> 0]

RawHours == {Num(-2), Num(-1), Num(10), Num(48), Null, BadStr}
RawMinutes == {Num(60), Num(120)}

\* int(x) of Python on a JSON number: truncation towards zero
PyInt(v) == IF v.twice >= 0 THEN v.twice \div 2 ELSE -((-v.twice) \div 2)

\* lines 575 and 581: the range checks (HourValid_Off: upper limit off by one)
HourValid_Off(h) == 0 <= h /\ h <= 24
HourValid(h) == 0 <= h /\ h <= 23
MinuteValid(m) == 0 <= m /\ m <= 59

DefaultHour == 10
DefaultMinute == 0
DefaultSchedule == [hour |-> DefaultHour, minute |-> DefaultMinute]

NoFile == [hour |-> -1, minute |-> -1]

Updaters == {1, 2}

IdleUpd == [pc |-> "idle", rawHour |-> Null, rawMinute |-> Null,
            hour |-> 0, minute |-> 0, http |-> 0, wrote |-> FALSE]

\* what /update-schedule answers before it touches any state: 0 = goes on
ValidationStatus(rh, rm) ==
    IF rh.kind = "null" \/ rm.kind = "null" THEN 400
    ELSE IF rh.kind = "str" \/ rm.kind = "str" THEN 400
    ELSE IF ~HourValid(PyInt(rh)) THEN 400
    ELSE IF ~MinuteValid(PyInt(rm)) THEN 400
    ELSE 0

----------------------------------------------------------------------------
(* Process start: load_schedule_config, then the module-level add_job *)

\* save_schedule_config: the dump succeeds, or the error is logged and dropped
SaveOutcomes(cfg, file) == {cfg, file}

Loaded(file) == IF file = NoFile THEN DefaultSchedule ELSE file

Startup(file, saved) ==
    /\ schedule_config' = Loaded(file)
    /\ config_file' = IF file = NoFile THEN saved ELSE file
    /\ daily_jobs' = {Loaded(file)}
    /\ upd' = [t \in Updaters |-> IdleUpd]

----------------------------------------------------------------------------
(* The campaign runner send_emails_with_subject (lines 825-952), run by    *)
(* the scheduler thread ("sched") and by a /trigger-test worker ("manual") *)

Runners == {"sched", "manual"}

\* first_name of a contact record: a string, JSON null, or no such field
Names == {"named", "null", "absent"}
ContactLists == UNION {[1..k -> Names] : k \in 0..MaxContacts}

\* status of a provider answer; "raise" is requests/sg.send raising
FetchAnswers == {"200", "204", "500", "raise"}
SendAnswers == {"202", "200", "raise"}

NoResult == [success |-> FALSE, kind |-> "none", failures |-> <<>>, count |-> 0]
Result(ok, kind, failures, n) ==
    [success |-> ok, kind |-> kind, failures |-> failures, count |-> n]

IdleRun == [pc |-> "idle", getRes |-> "none", postRes |-> "none",
            contacts |-> <<>>, pos |-> 0, sent_count |-> 0, failed |-> <<>>,
            posts |-> 0, calls |-> 0, accepted |-> 0, raised |-> 0, alerts |-> 0,
            result |-> NoResult, http |-> 0, key |-> "none", reconf |-> FALSE,
            names |-> <<>>]

InitialExecution == [timestamp |-> 0, status |-> "Not started", message |-> "",
                     emails_sent |-> 0, error |-> "None"]

SetRun(r, v) == run' = [run EXCEPT ![r] = v]

\* send_error_notification (lines 166-266): one mail to ALERT_EMAIL is handed
\* to the provider when ALERT_EMAIL, the API key and the sender are all set;
\* whatever happens to it is logged and dropped
Notified(cur) ==
    IF alert_email /\ creds THEN [cur EXCEPT !.alerts = @ + 1] ELSE cur

\* the run ends with res after notifying the operator
ReturnNotified(r, cur, res) ==
    SetRun(r, [Notified(cur) EXCEPT !.pc = "return", !.result = res])

\* line 830: not SENDGRID_API_KEY or not SENDER_EMAIL
\* (ConfigMissing_Off: the precondition check left out)
ConfigMissing_Off(c) == FALSE
ConfigMissing(c) == ~c

\* lines 848 and 858: response.status_code != 200
\* (FetchFailed_2xx: any 2xx status taken as success)
FetchFailed_2xx(status) == status \notin {"200", "204"}
FetchFailed(status) == status # "200"

\* line 866: if not contacts (NoContacts_Off: the early return left out)
NoContacts_Off(contacts) == FALSE
NoContacts(contacts) == Len(contacts) = 0

\* the for loop of line 896 goes on to the next contact whatever happened to
\* this one (the try/except of lines 897-925 is inside the loop body);
\* LoopNext_Break: the loop left at the first failure
LoopNext_Break(pos, n, failedNow) ==
    IF failedNow \/ pos >= n THEN "aggregate" ELSE "loop"
LoopNext(pos, n, failedNow) == IF pos >= n THEN "aggregate" ELSE "loop"

\* lines 864-870: contacts of the answer in hand
AfterFetch(r, cur, contacts) ==
    IF NoContacts(contacts)
    THEN SetRun(r, [cur EXCEPT !.pc = "return", !.contacts = contacts,
                     !.result = Result(TRUE, "no_contacts", <<>>, 0)])
    ELSE SetRun(r, [cur EXCEPT !.pc = "template", !.contacts = contacts])

\* lines 830-834
send_emails_check_config(r) ==
    /\ run[r].pc = "start"
    /\ IF ConfigMissing(creds)
       THEN ReturnNotified(r, run[r], Result(FALSE, "config", <<>>, 0))
       ELSE SetRun(r, [run[r] EXCEPT !.pc = "get"])
    /\ UNCHANGED auxVars
    /\ UNCHANGED <<schedVars, creds, alert_email, last_execution, runs>>

\* lines 843-848, 864-870: GET /v3/marketing/contacts
send_emails_get_contacts(r) ==
    /\ run[r].pc = "get"
    /\ \E st \in FetchAnswers, cs \in ContactLists :
         LET cur == [run[r] EXCEPT !.getRes = st] IN
         IF st = "raise" THEN
             /\ cs = <<>>
             /\ ReturnNotified(r, cur, Result(FALSE, "critical", <<>>, 0))
         ELSE IF FetchFailed(st) THEN
             /\ cs = <<>>
             /\ SetRun(r, [cur EXCEPT !.pc = "post"])
         ELSE AfterFetch(r, cur, cs)
    /\ UNCHANGED auxVars
    /\ UNCHANGED <<schedVars, creds, alert_email, last_execution, runs>>

\* lines 849-862, 864-870: POST /v3/marketing/contacts/search
send_emails_search_contacts(r) ==
    /\ run[r].pc = "post"
    /\ \E st \in FetchAnswers, cs \in ContactLists :
         LET cur == [run[r] EXCEPT !.postRes = st, !.posts = @ + 1] IN
         IF st = "raise" THEN
             /\ cs = <<>>
             /\ ReturnNotified(r, cur, Result(FALSE, "critical", <<>>, 0))
         ELSE IF FetchFailed(st) THEN
             /\ cs = <<>>
             /\ ReturnNotified(r, cur, Result(FALSE, "fetch", <<>>, 0))
         ELSE AfterFetch(r, cur, cs)
    /\ UNCHANGED auxVars
    /\ UNCHANGED <<schedVars, creds, alert_email, last_execution, runs>>

\* lines 872-893: open(TEMPLATE_PATH); a missing file ends the run
send_emails_load_template(r) ==
    /\ run[r].pc = "template"
    /\ \E exists \in BOOLEAN :
         IF ~exists
         THEN ReturnNotified(r, run[r], Result(FALSE, "template", <<>>, 0))
         ELSE SetRun(r, [run[r] EXCEPT
                !.pc = LoopNext(0, Len(run[r].contacts), FALSE), !.pos = 1])
    /\ UNCHANGED auxVars
    /\ UNCHANGED <<schedVars, creds, alert_email, last_execution, runs>>

\* lines 896-925: one contact.  html.replace("{{NAME}}", None) raises TypeError
\* before sg.send when first_name is null; sg.send raises or returns a status
\* line 899: name = contact.get("first_name", "Trader"): the default stands
\* in only when the key is missing; a key holding null gives None
FirstName(contact) ==
    CASE contact = "absent" -> "Trader"
      [] contact = "null"   -> "None"
      [] contact = "named"  -> "Ana"

\* line 900: html.replace("{{NAME}}", name): what the placeholder is replaced
\* with; str.replace raises TypeError when name is not a string
Replaced(name) == IF name = "None" THEN "TypeError" ELSE name

send_emails_one_contact(r) ==
    /\ run[r].pc = "loop"
    /\ LET cur == run[r]
           i == cur.pos
           n == Len(cur.contacts)
           name == FirstName(cur.contacts[i])
           shown == Replaced(name)
       IN IF shown = "TypeError"
          THEN SetRun(r, [cur EXCEPT !.failed = Append(@, i), !.pos = i + 1,
                                     !.names = Append(@, shown),
                                     !.pc = LoopNext(i, n, TRUE)])
          ELSE \E ans \in SendAnswers :
                 IF ans = "raise"
                 THEN SetRun(r, [cur EXCEPT !.calls = @ + 1, !.raised = @ + 1,
                                   !.failed = Append(@, i), !.pos = i + 1,
                                   !.names = Append(@, shown),
                                   !.pc = LoopNext(i, n, TRUE)])
                 ELSE SetRun(r, [cur EXCEPT !.calls = @ + 1,
                                   !.accepted = @ + (IF ans = "202" THEN 1 ELSE 0),
                                   !.sent_count = @ + 1, !.pos = i + 1,
                                   !.names = Append(@, shown),
                                   !.pc = LoopNext(i, n, FALSE)])
    /\ UNCHANGED auxVars
    /\ UNCHANGED <<schedVars, creds, alert_email, last_execution, runs>>

\* lines 927-945
\* lines 927-945: if failed_emails: (False, summary with the failures,
\* sent_count), else (True, message, sent_count)
\* (Aggregate_AllFine: the failure list is not looked at)
Aggregate_AllFine(failed, sent_count) == Result(TRUE, "sent", failed, sent_count)
Aggregate(failed, sent_count) ==
    IF failed # <<>>
    THEN Result(FALSE, "partial", failed, sent_count)
    ELSE Result(TRUE, "sent", <<>>, sent_count)

send_emails_aggregate(r) ==
    /\ run[r].pc = "aggregate"
    /\ ReturnNotified(r, run[r], Aggregate(run[r].failed, run[r].sent_count))
    /\ UNCHANGED auxVars
    /\ UNCHANGED <<schedVars, creds, alert_email, last_execution, runs>>

----------------------------------------------------------------------------
(* POST /update-schedule, one step per access to the shared state *)

SetUpd(t, r) == upd' = [upd EXCEPT ![t] = r]

\* lines 548-588: read the body, convert, validate; nothing shared is written
update_schedule_validate(t) ==
    /\ upd[t].pc = "idle"
    /\ updates < MaxUpdates
    /\ \E rh \in RawHours, rm \in RawMinutes :
         LET st == ValidationStatus(rh, rm)
             req == [IdleUpd EXCEPT !.rawHour = rh, !.rawMinute = rm]
         IN IF st # 0
            THEN /\ SetUpd(t, [req EXCEPT !.pc = "done", !.http = st])
                 /\ whole' = whole
            ELSE /\ SetUpd(t, [req EXCEPT !.pc = "write_hour",
                                       !.hour = PyInt(rh), !.minute = PyInt(rm)])
                 /\ whole' = whole \cup {[hour |-> PyInt(rh), minute |-> PyInt(rm)]}
    /\ updates' = updates + 1
    /\ UNCHANGED <<schedule_config, config_file, daily_jobs, restarts, runVars,
                   healthVars, seen>>

\* line 590
update_schedule_write_hour(t) ==
    /\ upd[t].pc = "write_hour"
    /\ schedule_config' = [schedule_config EXCEPT !.hour = upd[t].hour]
    /\ SetUpd(t, [upd[t] EXCEPT !.pc = "write_minute", !.wrote = TRUE])
    /\ UNCHANGED auxVars
    /\ UNCHANGED <<config_file, daily_jobs, updates, restarts, runVars>>

\* lines 591-593
update_schedule_write_minute(t) ==
    /\ upd[t].pc = "write_minute"
    /\ schedule_config' = [schedule_config EXCEPT !.minute = upd[t].minute]
    /\ SetUpd(t, [upd[t] EXCEPT !.pc = "save"])
    /\ UNCHANGED auxVars
    /\ UNCHANGED <<config_file, daily_jobs, updates, restarts, runVars>>

\* line 595: save_schedule_config() dumps the dict as it is now
save_schedule_config(t) ==
    /\ upd[t].pc = "save"
    /\ config_file' \in SaveOutcomes(schedule_config, config_file)
    /\ SetUpd(t, [upd[t] EXCEPT !.pc = "get_job"])
    /\ UNCHANGED auxVars
    /\ UNCHANGED <<schedule_config, daily_jobs, updates, restarts, runVars>>

\* scheduler.remove_job / add_job act on the job store only: an execution of
\* the job that is already running in the executor goes on untouched.  The
\* run notes that the trigger was changed under it.
\* (AfterReschedule_Cancel: changing the trigger cancels the running job)
InFlight(r) == run[r].pc \notin {"idle", "done"}
AfterReschedule_Cancel(rs) ==
    [r \in Runners |-> IF r = "sched" /\ InFlight(r)
                       THEN [IdleRun EXCEPT !.reconf = TRUE] ELSE rs[r]]
AfterReschedule(rs) ==
    [r \in Runners |-> IF r = "sched" /\ InFlight(r)
                       THEN [rs[r] EXCEPT !.reconf = TRUE] ELSE rs[r]]

\* line 1000: scheduler.get_job('daily_emails')
reschedule_get_job(t) ==
    /\ upd[t].pc = "get_job"
    /\ SetUpd(t, [upd[t] EXCEPT
                    !.pc = IF daily_jobs # {} THEN "remove_job" ELSE "add_job"])
    /\ UNCHANGED auxVars
    /\ UNCHANGED <<schedule_config, config_file, daily_jobs, updates, restarts, runVars>>

\* line 1001: scheduler.remove_job raises JobLookupError when the job is gone;
\* lines 1016-1018 re-raise, update_schedule answers 500 (lines 614-624)
reschedule_remove_job(t) ==
    /\ upd[t].pc = "remove_job"
    /\ IF daily_jobs # {}
       THEN /\ daily_jobs' = {}
            /\ run' = AfterReschedule(run)
            /\ SetUpd(t, [upd[t] EXCEPT !.pc = "add_job"])
       ELSE /\ daily_jobs' = daily_jobs
            /\ run' = run
            /\ SetUpd(t, [upd[t] EXCEPT !.pc = "done", !.http = 500])
    /\ UNCHANGED auxVars
    /\ UNCHANGED <<schedule_config, config_file, updates, restarts,
                   creds, alert_email, last_execution, runs>>

\* lines 1004-1012: add_job(id='daily_emails', replace_existing=True), then
\* lines 598-612: the 200 answer
reschedule_add_job(t) ==
    /\ upd[t].pc = "add_job"
    /\ daily_jobs' = {[hour |-> upd[t].hour, minute |-> upd[t].minute]}
    /\ run' = AfterReschedule(run)
    /\ SetUpd(t, [upd[t] EXCEPT !.pc = "done", !.http = 200])
    /\ UNCHANGED auxVars
    /\ UNCHANGED <<schedule_config, config_file, updates, restarts,
                   creds, alert_email, last_execution, runs>>

\* the worker takes the next request
update_schedule_return(t) ==
    /\ upd[t].pc = "done"
    /\ SetUpd(t, IdleUpd)
    /\ UNCHANGED auxVars
    /\ UNCHANGED <<schedule_config, config_file, daily_jobs, updates, restarts, runVars>>

----------------------------------------------------------------------------
(* The two callers of the campaign runner *)

\* lines 958-968: the cron trigger 'daily_emails' fires
scheduled_daily_email_job_fire ==
    /\ run["sched"].pc = "idle"
    /\ daily_jobs # {}
    /\ runs < MaxRuns
    /\ runs' = runs + 1
    /\ last_execution' = [last_execution EXCEPT !.timestamp = now,
                                                !.status = "Running"]
    /\ SetRun("sched", [IdleRun EXCEPT !.pc = "start"])
    /\ UNCHANGED auxVars
    /\ UNCHANGED <<schedVars, creds, alert_email>>

\* lines 970-978
\* line 970: "Success" if success else "Failed"
\* (RecordedStatus_Running: the status written at the fire is left standing)
RecordedStatus_Running(success) == "Running"
RecordedStatus(success) == IF success THEN "Success" ELSE "Failed"

scheduled_daily_email_job_record ==
    /\ run["sched"].pc = "return"
    /\ LET res == run["sched"].result IN
       last_execution' = [last_execution EXCEPT
           !.status = RecordedStatus(res.success),
           !.message = res.kind,
           !.emails_sent = res.count,
           !.error = IF res.success THEN "None" ELSE res.kind]
    /\ last_success' = IF run["sched"].result.success
                       THEN last_execution.timestamp ELSE last_success
    /\ SetRun("sched", [run["sched"] EXCEPT !.pc = "done"])
    /\ UNCHANGED <<schedVars, creds, alert_email, runs,
                   now, monitoring_status, mon, seen, whole>>

\* lines 765-766: the X-API-Key header of the request ("absent": no such
\* header, request.headers.get gives None) and the key the process expects
ApiKeys == {"secret", "other", "absent"}
ExpectedKey == "secret"

\* line 768: if api_key != expected_key
\* (Unauthorized_Off: the key is not compared)
Unauthorized_Off(api_key) == FALSE
Unauthorized(api_key) == api_key # ExpectedKey

\* lines 761-775: POST /trigger-test with its X-API-Key header
trigger_test_receive ==
    /\ run["manual"].pc = "idle"
    /\ runs < MaxRuns
    /\ \E api_key \in ApiKeys :
         IF Unauthorized(api_key)
         THEN /\ SetRun("manual", [IdleRun EXCEPT !.pc = "done", !.http = 401,
                                                  !.key = api_key])
              /\ runs' = runs
         ELSE /\ SetRun("manual", [IdleRun EXCEPT !.pc = "start", !.key = api_key])
              /\ runs' = runs + 1
    /\ UNCHANGED auxVars
    /\ UNCHANGED <<schedVars, creds, alert_email, last_execution>>

\* lines 777-782
trigger_test_respond ==
    /\ run["manual"].pc = "return"
    /\ SetRun("manual", [run["manual"] EXCEPT !.pc = "done",
                          !.http = IF run["manual"].result.success THEN 200 ELSE 500])
    /\ UNCHANGED auxVars
    /\ UNCHANGED <<schedVars, creds, alert_email, last_execution, runs>>

\* the caller is free for its next invocation
caller_return(r) ==
    /\ run[r].pc = "done"
    /\ SetRun(r, IdleRun)
    /\ UNCHANGED auxVars
    /\ UNCHANGED <<schedVars, creds, alert_email, last_execution, runs>>

----------------------------------------------------------------------------
(* Health monitoring: run_health_monitoring (lines 388-457) and its three  *)
(* checks, run by the monitoring job and by /monitor                       *)

InitialMonitoring == [status |-> "Not started", issues_found |-> <<>>,
                      checks_passed |-> 0, checks_failed |-> 0]

\* the calls so far, and the locals of the last one: the issue list of each
\* check, the clock, the timestamp of last_execution and the latest success
\* at the call, the provider's contact list as the check found it, how the
\* alert mail went, and the list the call returned
IdleMon == [checks |-> 0, config |-> <<>>, exec |-> <<>>, contacts |-> <<>>,
            at |-> 0, timestamp |-> 0, success_at |-> 0, list |-> "none",
            notify |-> "none", returned |-> <<>>]

\* line 341: timedelta(hours=25)
StaleHours == 25

\* the clock moves between two looks at it by one of these numbers of hours
TickHours == {25, 26}

\* what the monitoring job meets: the answer of GET /v3/verified_senders and
\* the answers of the two contact requests
VerifyAnswers == {"verified", "unverified"}
MonitorFetchAnswers == {"200", "500", "raise"}

\* lines 272-318
check_sendgrid_config(template, verify) ==
    (IF creds THEN <<>> ELSE <<"no_api_key", "no_sender">>)
    \o (IF template THEN <<>> ELSE <<"no_template">>)
    \o (IF ~creds \/ verify = "verified" THEN <<>>
        ELSE IF verify = "unverified" THEN <<"sender_unverified">>
        ELSE IF verify = "500" THEN <<"verify_http">>
        ELSE <<"verify_error">>)

\* lines 320-347
check_last_execution_status(le, clock) ==
    IF le.timestamp = 0 THEN <<"no_executions">>
    ELSE (IF le.status = "Failed" THEN <<"last_failed">> ELSE <<>>)
         \o (IF clock - le.timestamp > StaleHours THEN <<"stale">> ELSE <<>>)

\* the answer check_sendgrid_contacts goes by: lines 360-373
ContactsAnswer(get, post) == IF get \in {"200", "raise"} THEN get ELSE post

\* lines 349-386
\* (check_sendgrid_contacts_Lenient: an empty list is no issue)
check_sendgrid_contacts_Lenient(get, post, n) ==
    IF ~creds THEN <<"no_api_key">>
    ELSE IF ContactsAnswer(get, post) = "raise" THEN <<"contacts_error">>
    ELSE IF ContactsAnswer(get, post) = "200" THEN <<>>
    ELSE <<"contacts_http">>
check_sendgrid_contacts(get, post, n) ==
    IF ~creds THEN <<"no_api_key">>
    ELSE IF ContactsAnswer(get, post) = "raise" THEN <<"contacts_error">>
    ELSE IF ContactsAnswer(get, post) = "200"
         THEN (IF n = 0 THEN <<"no_contacts">> ELSE <<>>)
    ELSE <<"contacts_http">>

Failing(issues) == IF issues = <<>> THEN 0 ELSE 1

\* lines 394-428: the three checks one after the other, each adding to the list
\* (RunChecks_Abort: the battery stops at the first check that finds an issue)
RunChecks_Abort(c1, c2, c3) ==
    IF c1 # <<>> THEN [issues |-> c1, passed |-> 0, failed |-> 1]
    ELSE IF c2 # <<>> THEN [issues |-> c2, passed |-> 1, failed |-> 1]
    ELSE [issues |-> c3, passed |-> 3 - Failing(c3), failed |-> Failing(c3)]
RunChecks(c1, c2, c3) ==
    [issues |-> c1 \o c2 \o c3,
     passed |-> 3 - (Failing(c1) + Failing(c2) + Failing(c3)),
     failed |-> Failing(c1) + Failing(c2) + Failing(c3)]

\* lines 436-443 with 166-176 and 264-266: the alert mail goes out only when
\* there are issues; send_error_notification gives False when it is not
\* configured or when the send raised
NotifyOutcomes(issues) ==
    IF issues = <<>> THEN {"none"}
    ELSE IF ~alert_email \/ ~creds THEN {"unconfigured"}
    ELSE {"sent", "failed"}

\* lines 430-434 and 445: monitoring_status is written before the alert mail
\* and the value send_error_notification gives is dropped
\* (MonitoringResult_Raise: a failed alert mail reaches the handler of 447-457)
MonitoringResult_Raise(checks, notify) ==
    IF notify = "failed"
    THEN [status |-> "Error", issues_found |-> <<"monitoring_error">>,
          checks_passed |-> checks.passed, checks_failed |-> checks.failed,
          returned |-> <<"monitoring_error">>]
    ELSE [status |-> IF checks.issues = <<>> THEN "Healthy" ELSE "Issues Found",
          issues_found |-> checks.issues,
          checks_passed |-> checks.passed, checks_failed |-> checks.failed,
          returned |-> checks.issues]
MonitoringResult(checks, notify) ==
    [status |-> IF checks.issues = <<>> THEN "Healthy" ELSE "Issues Found",
     issues_found |-> checks.issues,
     checks_passed |-> checks.passed, checks_failed |-> checks.failed,
     returned |-> checks.issues]

\* what the contact check can meet: the list as the check found it ("none":
\* no answer 200) beside the issues it gives
ContactFindings ==
    {[list |-> IF creds /\ ContactsAnswer(get, post) = "200"
               THEN (IF n = 0 THEN "empty" ELSE "some") ELSE "none",
      issues |-> check_sendgrid_contacts(get, post, n)] :
        get \in MonitorFetchAnswers, post \in MonitorFetchAnswers, n \in 0..1}

ConfigFindings ==
    {check_sendgrid_config(template, verify) :
        template \in BOOLEAN, verify \in VerifyAnswers}

run_health_monitoring ==
    /\ mon.checks < MaxChecks
    /\ \E c1 \in ConfigFindings, found \in ContactFindings :
         LET c2 == check_last_execution_status(last_execution, now)
             c3 == found.issues
             checks == RunChecks(c1, c2, c3)
         IN \E notify \in NotifyOutcomes(checks.issues) :
              LET res == MonitoringResult(checks, notify) IN
              /\ monitoring_status' = [status |-> res.status,
                                       issues_found |-> res.issues_found,
                                       checks_passed |-> res.checks_passed,
                                       checks_failed |-> res.checks_failed]
              /\ mon' = [checks |-> mon.checks + 1,
                         config |-> c1, exec |-> c2, contacts |-> c3,
                         at |-> now, timestamp |-> last_execution.timestamp,
                         success_at |-> last_success,
                         list |-> found.list,
                         notify |-> notify, returned |-> res.returned]
    /\ UNCHANGED <<schedVars, runVars, now, last_success, readVars>>

\* time passes; a campaign run is short beside the hours counted here
tick ==
    \E d \in TickHours :
      /\ \A r \in Runners : ~InFlight(r)
      /\ now + d <= MaxNow
      /\ now' = now + d
      /\ UNCHANGED <<schedVars, runVars, monitoring_status, mon, last_success,
                     readVars>>

----------------------------------------------------------------------------
(* GET /get-schedule, / and /status: the schedule string is formatted from  *)
(* schedule_config['hour'] and then schedule_config['minute']               *)

IdleSeen == [pc |-> "idle", hour |-> 0, minute |-> 0]

\* line 539 (also 479, 715): {schedule_config['hour']:02d}
get_schedule_read_hour ==
    /\ seen.pc \in {"idle", "done"}
    /\ seen' = [pc |-> "minute", hour |-> schedule_config.hour, minute |-> 0]
    /\ UNCHANGED <<schedVars, runVars, healthVars, whole>>

\* line 539 (also 479, 715): {schedule_config['minute']:02d}, then the answer
get_schedule_read_minute ==
    /\ seen.pc = "minute"
    /\ seen' = [seen EXCEPT !.pc = "done", !.minute = schedule_config.minute]
    /\ UNCHANGED <<schedVars, runVars, healthVars, whole>>

----------------------------------------------------------------------------
(* Process restart: globals of lines 106-129 anew, then lines 1020-1030 *)

restart ==
    /\ restarts < MaxRestarts
    /\ restarts' = restarts + 1
    /\ \E saved \in SaveOutcomes(DefaultSchedule, NoFile) :
         Startup(config_file, saved)
    /\ last_execution' = InitialExecution
    /\ monitoring_status' = InitialMonitoring
    /\ mon' = IdleMon
    /\ seen' = IdleSeen
    /\ whole' = whole \cup {Loaded(config_file)}
    /\ run' = [r \in Runners |-> IdleRun]
    /\ UNCHANGED <<updates, creds, alert_email, runs, now, last_success>>

Init ==
    /\ \E file \in {NoFile, [hour |-> 23, minute |-> 59]},
          saved \in SaveOutcomes(DefaultSchedule, NoFile) :
         /\ schedule_config = Loaded(file)
         /\ config_file = (IF file = NoFile THEN saved ELSE file)
         /\ daily_jobs = {Loaded(file)}
         /\ whole = {Loaded(file)}
    /\ upd = [t \in Updaters |-> IdleUpd]
    /\ updates = 0
    /\ restarts = 0
    /\ creds \in BOOLEAN
    /\ alert_email \in BOOLEAN
    /\ last_execution = InitialExecution
    /\ run = [r \in Runners |-> IdleRun]
    /\ runs = 0
    /\ now = 1
    /\ monitoring_status = InitialMonitoring
    /\ mon = IdleMon
    /\ last_success = 0
    /\ seen = IdleSeen

UpdateNext(t) ==
    \/ update_schedule_validate(t)
    \/ update_schedule_write_hour(t)
    \/ update_schedule_write_minute(t)
    \/ save_schedule_config(t)
    \/ reschedule_get_job(t)
    \/ reschedule_remove_job(t)
    \/ reschedule_add_job(t)
    \/ update_schedule_return(t)

RunNext(r) ==
    \/ send_emails_check_config(r)
    \/ send_emails_get_contacts(r)
    \/ send_emails_search_contacts(r)
    \/ send_emails_load_template(r)
    \/ send_emails_one_contact(r)
    \/ send_emails_aggregate(r)
    \/ caller_return(r)

CallerNext ==
    \/ scheduled_daily_email_job_fire
    \/ scheduled_daily_email_job_record
    \/ trigger_test_receive
    \/ trigger_test_respond

\* the schedule controller: concurrent /update-schedule requests and restarts
ScheduleNext == (\E t \in Updaters : UpdateNext(t)) \/ restart
SpecSchedule == Init /\ [][ScheduleNext]_vars

\* the campaign runner under its two callers
CampaignNext == (\E r \in Runners : RunNext(r)) \/ CallerNext
InitCampaign == Init /\ config_file = DefaultSchedule
SpecCampaign == InitCampaign /\ [][CampaignNext]_vars

\* the campaign runner under the scheduler thread alone: successive daily fires
ScheduledNext ==
    \/ RunNext("sched")
    \/ scheduled_daily_email_job_fire
    \/ scheduled_daily_email_job_record
SpecScheduled == Init /\ [][ScheduledNext]_vars

\* the same under a scheduler thread that keeps running the job it started
\* and a provider that answers, or fails, every request made to it
SpecScheduledFair ==
    /\ SpecScheduled
    /\ WF_vars(RunNext("sched"))
    /\ WF_vars(scheduled_daily_email_job_record)

\* one /update-schedule worker beside the scheduler thread's runs
ReconfigureNext == UpdateNext(1) \/ ScheduledNext
InitReconfigure == Init /\ config_file = DefaultSchedule /\ creds /\ alert_email
SpecReconfigure == InitReconfigure /\ [][ReconfigureNext]_vars

\* POST /trigger-test alone
ManualNext ==
    \/ RunNext("manual")
    \/ trigger_test_receive
    \/ trigger_test_respond
SpecManual == InitCampaign /\ [][ManualNext]_vars

\* GET workers beside the /update-schedule workers
ReadNext ==
    \/ \E t \in Updaters : UpdateNext(t)
    \/ get_schedule_read_hour
    \/ get_schedule_read_minute
SpecRead == Init /\ [][ReadNext]_vars

\* the monitoring job beside the scheduler thread's runs, over the days, up
\* to the MaxChecks-th health check
HealthNext ==
    \/ run_health_monitoring
    \/ mon.checks < MaxChecks /\ (tick \/ ScheduledNext)
InitHealth == Init /\ config_file = DefaultSchedule /\ creds /\ alert_email
SpecHealth == InitHealth /\ [][HealthNext]_vars

Next == ScheduleNext \/ CampaignNext \/ ReadNext \/ HealthNext
Spec == Init /\ [][Next]_vars

----------------------------------------------------------------------------
(* Properties *)

Ended(r) == run[r].pc \in {"return", "done"}

IsInteger(v) == v.kind = "num" /\ v.twice % 2 = 0
Value(v) == v.twice \div 2

\* the request of worker t asks for a whole-numbered time inside the ranges
AsksValidPair(t) ==
    /\ IsInteger(upd[t].rawHour) /\ Value(upd[t].rawHour) \in 0..23
    /\ IsInteger(upd[t].rawMinute) /\ Value(upd[t].rawMinute) \in 0..59
AskedPair(t) == [hour |-> Value(upd[t].rawHour), minute |-> Value(upd[t].rawMinute)]

\* the request of worker t carries a number outside 0..23 or outside 0..59
AsksOutOfRange(t) ==
    \/ upd[t].rawHour.kind = "num"
         /\ (upd[t].rawHour.twice < 0 \/ upd[t].rawHour.twice > 2 * 23)
    \/ upd[t].rawMinute.kind = "num"
         /\ (upd[t].rawMinute.twice < 0 \/ upd[t].rawMinute.twice > 2 * 59)

\* C1: at most one campaign execution is in flight at any moment, whichever
\* of the scheduled job and /trigger-test started it.
C1_AtMostOneRunInFlight == Cardinality({r \in Runners : InFlight(r)}) <= 1

\* C2: in every state exactly one trigger is registered under 'daily_emails',
\* the intermediate states of reschedule_daily_job included.
C2_ExactlyOneDailyTrigger == Cardinality(daily_jobs) = 1

\* C3: schedule_config always holds 0 <= hour <= 23 and 0 <= minute <= 59, and
\* a request whose converted hour or minute is outside the range is answered
\* 400 without having written anything.
C3_ScheduleInRange ==
    /\ schedule_config.hour \in 0..23
    /\ schedule_config.minute \in 0..59
    /\ \A t \in Updaters :
         (/\ upd[t].pc # "idle"
          /\ upd[t].rawHour.kind = "num" /\ upd[t].rawMinute.kind = "num"
          /\ (PyInt(upd[t].rawHour) \notin 0..23 \/ PyInt(upd[t].rawMinute) \notin 0..59))
         => (upd[t].pc = "done" /\ upd[t].http = 400 /\ ~upd[t].wrote)

\* C3 witness: after a restart loaded an updated schedule, a request for hour 24
\* has been rejected.
C3_Witness ==
    /\ restarts = 1
    /\ schedule_config.hour = 5
    /\ \E t \in Updaters :
         upd[t].pc = "done" /\ upd[t].http = 400 /\ upd[t].rawHour = Num(48)

\* C4: an update to a valid (hour, minute), alone since process start, answers
\* 200, leaves /get-schedule returning that pair, and a restart would load
\* that pair from the file.
C4_UpdateRoundTrip ==
    \A t \in Updaters :
      (updates = 1 /\ restarts = 0 /\ upd[t].pc = "done" /\ AsksValidPair(t))
      => /\ upd[t].http = 200
         /\ schedule_config = AskedPair(t)
         /\ Loaded(config_file) = AskedPair(t)

\* C5: a finished request that carried an hour outside 0..23 or a minute
\* outside 0..59 was answered 400 and wrote nothing (schedule, file, trigger).
C5_OutOfRangeRejected ==
    \A t \in Updaters :
      (upd[t].pc = "done" /\ AsksOutOfRange(t))
      => (upd[t].http = 400 /\ ~upd[t].wrote)

\* C6: a run in which exactly one send call failed and nothing else failed
\* called the provider for every one of its N recipients and returned
\* (false, a message listing that one failure, N-1).
C6_FailureIsolation ==
    \A r \in Runners :
      (Ended(r) /\ run[r].raised = 1 /\ Len(run[r].failed) = 1)
      => /\ run[r].calls = Len(run[r].contacts)
         /\ run[r].result.success = FALSE
         /\ run[r].result.kind = "partial"
         /\ Len(run[r].result.failures) = 1
         /\ run[r].result.count = Len(run[r].contacts) - 1

\* C6 witness: the first of MaxContacts recipients failed, the run went on.
C6_Witness ==
    \E r \in Runners :
      /\ Ended(r) /\ run[r].raised = 1 /\ run[r].failed = <<1>>
      /\ Len(run[r].contacts) = MaxContacts

\* C7: when the provider answers with zero recipients the run returns
\* (true, the no-contacts message, 0) and no send call is made.
C7_NoContactsNoOp ==
    \A r \in Runners :
      ((run[r].getRes = "200" \/ run[r].postRes = "200") /\ run[r].contacts = <<>>)
      => /\ run[r].calls = 0
         /\ Ended(r)
         /\ run[r].result = Result(TRUE, "no_contacts", <<>>, 0)

\* C7 witness: a run over an empty contact list has returned.
C7_Witness ==
    \E r \in Runners :
      /\ run[r].pc = "done" /\ run[r].postRes = "200" /\ run[r].contacts = <<>>

\* C8: once a campaign execution has finished, whoever started it,
\* last_execution shows that run's outcome.
C8_RunRecordUpdated ==
    \A r \in Runners :
      (run[r].pc = "done" /\ run[r].result.kind # "none")
      => /\ last_execution.timestamp # 0
         /\ last_execution.status = (IF run[r].result.success THEN "Success" ELSE "Failed")
         /\ last_execution.message = run[r].result.kind
         /\ last_execution.emails_sent = run[r].result.count

C10_FallbackIffNon2xx ==
    \A r \in Runners :
      (run[r].pc # "post" /\ run[r].getRes \in {"200", "204", "500"})
      => (run[r].posts > 0 <=> run[r].getRes \notin {"200", "204"})

\* C10 amended: the search request is issued exactly when the list request
\* was answered with a status other than 200, at most once per run; the run
\* ends with the fetch error only when both answers are other than 200; a
\* 200 answer to the list request is used without a search request.
C10_FallbackIffNot200 ==
    \A r \in Runners :
      /\ run[r].posts <= 1
      /\ (run[r].posts = 0) <=> (run[r].postRes = "none")
      /\ (run[r].pc # "post" /\ run[r].getRes \in {"200", "204", "500"})
           => (run[r].posts = 1 <=> run[r].getRes # "200")
      /\ run[r].result.kind = "fetch"
           => (run[r].getRes \in {"204", "500"} /\ run[r].postRes \in {"204", "500"})
      /\ run[r].getRes = "200" => run[r].posts = 0

\* C10 witness: the list request was answered 204 and the search request 200,
\* whose contacts the run went on with.
C10_Witness ==
    \E r \in Runners :
      /\ run[r].getRes = "204" /\ run[r].postRes = "200"
      /\ run[r].pc = "loop" /\ Len(run[r].contacts) = MaxContacts

\* C11: a scheduled run under which the daily trigger was replaced is not
\* cancelled: it goes on over every recipient of its list and its outcome is
\* recorded in last_execution; the accepted update changed only the trigger,
\* which afterwards fires at the requested time.
C11_ReconfigureLeavesRun ==
    LET s == run["sched"] IN
    /\ s.reconf =>
         /\ s.pc # "idle"
         /\ last_execution.timestamp # 0
         /\ (Ended("sched") /\ s.result.kind \in {"partial", "sent"})
              => /\ s.pos = Len(s.contacts) + 1
                 /\ s.sent_count + Len(s.failed) = Len(s.contacts)
         /\ s.pc = "done"
              => /\ last_execution.status
                      = (IF s.result.success THEN "Success" ELSE "Failed")
                 /\ last_execution.message = s.result.kind
                 /\ last_execution.emails_sent = s.result.count
    /\ (upd[1].pc = "done" /\ upd[1].http = 200)
         => daily_jobs = {[hour |-> upd[1].hour, minute |-> upd[1].minute]}

\* C11 witness: the trigger was replaced while the run was under way, and the
\* run has since sent to all MaxContacts recipients and recorded Success.
C11_Witness ==
    /\ run["sched"].reconf /\ run["sched"].pc = "done"
    /\ run["sched"].result.kind = "sent"
    /\ run["sched"].sent_count = MaxContacts
    /\ last_execution.status = "Success"
    /\ upd[1].pc = "done" /\ upd[1].http = 200

\* C16: a /trigger-test request whose X-API-Key is missing or differs from
\* the expected key is answered 401 at once: no contact fetch, no send, no
\* alert mail, no result, and last_execution is as it was.
C16_BadKeyStartsNothing ==
    (run["manual"].pc # "idle" /\ run["manual"].key \in {"other", "absent"})
    => /\ run["manual"].pc = "done"
       /\ run["manual"].http = 401
       /\ run["manual"].getRes = "none" /\ run["manual"].postRes = "none"
       /\ run["manual"].posts = 0 /\ run["manual"].calls = 0
       /\ run["manual"].alerts = 0 /\ run["manual"].sent_count = 0
       /\ run["manual"].result = NoResult
       /\ last_execution = InitialExecution

\* C16 witness: after a run that was let in, a request without the header has
\* been answered 401.
C16_Witness ==
    /\ runs = 1
    /\ run["manual"].pc = "done" /\ run["manual"].key = "absent"
    /\ run["manual"].http = 401

Has(issues, issue) == \E i \in 1..Len(issues) : issues[i] = issue

\* C13: a health check runs its three checks whatever the earlier ones found:
\* the list it returns and stores is the issues of the configuration check,
\* then of the last-execution check, then of the contact check, and
\* checks_passed + checks_failed = 3 with one count per check.
C13_AllChecksRun ==
    mon.checks > 0
    => /\ mon.returned = mon.config \o mon.exec \o mon.contacts
       /\ monitoring_status.issues_found = mon.config \o mon.exec \o mon.contacts
       /\ monitoring_status.checks_passed + monitoring_status.checks_failed = 3
       /\ monitoring_status.checks_failed
            = Cardinality({c \in {"config", "exec", "contacts"} : mon[c] # <<>>})

\* C13 witness: the first check found two issues, the second none, the third
\* one.
C13_Witness ==
    /\ mon.checks > 0
    /\ mon.config = <<"no_template", "sender_unverified">>
    /\ mon.exec = <<>>
    /\ mon.contacts = <<"no_contacts">>
    /\ monitoring_status.checks_failed = 2

\* C14: a health check reports the staleness issue exactly when the timestamp
\* of last_execution is more than 25 hours old; and whenever no successful run
\* started within the 25 hours before the check, the check reports an issue.
C14_StaleMeansNoRecentSuccess ==
    mon.checks > 0
    => /\ Has(mon.returned, "stale")
            <=> (mon.timestamp # 0 /\ mon.at - mon.timestamp > 25)
       /\ (mon.success_at = 0 \/ mon.at - mon.success_at > 25)
            => mon.returned # <<>>

\* C15: however the alert mail of a health check went (sent, not configured,
\* or failed inside send_error_notification), the list returned and
\* monitoring_status are what the three checks found, never the Error status.
C15_NotificationNeverCounts ==
    (mon.checks > 0 /\ mon.notify \in {"none", "unconfigured", "sent", "failed"})
    => /\ mon.returned = mon.config \o mon.exec \o mon.contacts
       /\ monitoring_status.issues_found = mon.returned
       /\ monitoring_status.status
            = (IF mon.config = <<>> /\ mon.exec = <<>> /\ mon.contacts = <<>>
               THEN "Healthy" ELSE "Issues Found")
       /\ mon.notify = "none" <=> mon.returned = <<>>

\* C15 witness: the alert mail about two issues failed.
C15_Witness ==
    /\ mon.checks > 0 /\ mon.notify = "failed"
    /\ Len(mon.returned) = 2
    /\ monitoring_status.status = "Issues Found"

\* C18: when the provider's contact list is empty, a health check that fetched
\* it reports the no-contacts issue and the status Issues Found, while a
\* campaign run that fetched it returns (true, no contacts, 0) and a scheduled
\* run is recorded as Success.
C18_SeverityByLayer ==
    /\ (mon.checks > 0 /\ mon.list = "empty")
         => /\ Has(mon.returned, "no_contacts")
            /\ Has(monitoring_status.issues_found, "no_contacts")
            /\ monitoring_status.status = "Issues Found"
            /\ monitoring_status.checks_failed >= 1
    /\ \A r \in Runners :
         (Ended(r) /\ (run[r].getRes = "200" \/ run[r].postRes = "200")
            /\ run[r].contacts = <<>>)
         => /\ run[r].result = Result(TRUE, "no_contacts", <<>>, 0)
            /\ (r = "sched" /\ run[r].pc = "done")
                 => (last_execution.status = "Success"
                     /\ last_execution.emails_sent = 0)

\* C18 witness: the scheduled run over the empty list was recorded as Success
\* and the health check after it found the empty list as its only issue.
C18_Witness ==
    /\ run["sched"].pc = "done" /\ run["sched"].result.kind = "no_contacts"
    /\ last_execution.status = "Success"
    /\ mon.checks > 0 /\ mon.list = "empty"
    /\ monitoring_status.issues_found = <<"no_contacts">>
    /\ monitoring_status.status = "Issues Found"

\* C19: the count a run returns is the number of its recipients whose send
\* call returned the provider's accepted status 202; a send call that
\* returned another status is not counted.
C19_SentCountIsAccepted ==
    \A r \in Runners :
      (Ended(r) /\ run[r].result.kind \in {"partial", "sent"})
      => run[r].result.count = run[r].accepted

\* C20: for every recipient the loop has passed, a record without first_name
\* or with a null first_name had the placeholder replaced with "Trader", a
\* record with a first name had it replaced with that name, and the send call
\* was made for each of them.
C20_NamePersonalized ==
    \A r \in Runners :
      /\ \A i \in 1..Len(run[r].names) :
           /\ run[r].contacts[i] \in {"absent", "null"} => run[r].names[i] = "Trader"
           /\ run[r].contacts[i] = "named" => run[r].names[i] = "Ana"
      /\ run[r].calls = Len(run[r].names)

\* C12: every (hour, minute) that a GET handler returns is a pair that the
\* initial load or one single accepted update set as a whole.
C12_NoPartialPairRead ==
    seen.pc = "done" => [hour |-> seen.hour, minute |-> seen.minute] \in whole

\* C17: as long as only loads have happened, the schedule file exists and
\* the active schedule and the daily trigger are the pair it holds: the pair
\* found in the file, or the default 10:00 written at once when there was none.
C17_LoadAtStart ==
    updates = 0
    => /\ config_file # NoFile
       /\ schedule_config = config_file
       /\ daily_jobs = {config_file}
       /\ config_file \in {DefaultSchedule, [hour |-> 23, minute |-> 59]}

\* C21: whenever no /update-schedule request is in progress, schedule_config,
\* the schedule file and the registered daily trigger hold the same
\* (hour, minute), and a request answered 400 or 500 has written nothing.
C21_ThreeCopiesAgree ==
    (\A t \in Updaters : upd[t].pc \in {"idle", "done"})
    => /\ config_file = schedule_config
       /\ daily_jobs = {schedule_config}
       /\ \A t \in Updaters :
            (upd[t].pc = "done" /\ upd[t].http \in {400, 500}) => ~upd[t].wrote

\* C23: in a run that reached the send loop over N >= 1 recipients, every
\* recipient the loop has passed is counted once, in sent_count or in the
\* failure list; the run that went through returns a count and a failure
\* list that add up to N, and success exactly when the failure list is empty.
C23_RunAccounting ==
    \A r \in Runners :
      /\ run[r].pc \in {"loop", "aggregate"}
           => /\ run[r].sent_count + Len(run[r].failed) = run[r].pos - 1
              /\ \A i, j \in 1..Len(run[r].failed) :
                   i < j => run[r].failed[i] < run[r].failed[j]
      /\ (Ended(r) /\ run[r].result.kind \in {"partial", "sent"})
           => /\ Len(run[r].contacts) >= 1
              /\ run[r].result.count + Len(run[r].result.failures)
                   = Len(run[r].contacts)
              /\ \A i \in 1..Len(run[r].result.failures) :
                   run[r].result.failures[i] \in 1..Len(run[r].contacts)
              /\ \A i, j \in 1..Len(run[r].result.failures) :
                   i < j => run[r].result.failures[i] < run[r].result.failures[j]
              /\ run[r].result.success <=> run[r].result.failures = <<>>

\* C23 witness: of MaxContacts recipients the last one failed and the others
\* were sent; the run returned failure with that one entry.
C23_Witness ==
    \E r \in Runners :
      /\ Ended(r) /\ Len(run[r].contacts) = MaxContacts
      /\ run[r].result.failures = <<MaxContacts>>
      /\ run[r].result.count = MaxContacts - 1
      /\ ~run[r].result.success

\* C22: a scheduled fire does not stay Running: once the job has returned,
\* last_execution.status is Success, Failed or Error, it is Success exactly
\* when the runner returned success, and last_execution.error is None exactly
\* when the status is Success; and every Running is followed by such a status.
C22_FireLeavesRunning ==
    /\ [](run["sched"].pc = "done"
           => /\ last_execution.status \in {"Success", "Failed", "Error"}
              /\ last_execution.status = "Success" <=> run["sched"].result.success
              /\ last_execution.error = "None" <=> last_execution.status = "Success")
    /\ []((runs > 0 /\ run["sched"].pc = "idle")
           => last_execution.status \in {"Success", "Failed", "Error"})
    /\ (last_execution.status = "Running")
         ~> (last_execution.status \in {"Success", "Failed", "Error"})

\* C22 witness: the last fire of the model has returned with a failed run.
C22_Witness ==
    /\ runs = MaxRuns /\ run["sched"].pc = "done"
    /\ ~run["sched"].result.success
    /\ last_execution.status = "Failed" /\ last_execution.error # "None"

====
